---------------------------- MODULE Spec2Model ----------------------------
(***************************************************************************)
(* QueryPilot: the Streamlit data-analyst application.                     *)
(*                                                                         *)
(*   src/ai_data_analyst.py  preprocess_and_save and the script body that  *)
(*                           Streamlit re-runs on every interaction        *)
(*   src/eda_helpers.py      perform_full_analysis                         *)
(*                                                                         *)
(* Text is a sequence of one-character strings, so that the quoting, the   *)
(* escaping, the extension test and the numeric parse are computed and not *)
(* assumed.  A table is kept run-length encoded: a sequence of blocks, a   *)
(* block being one row and the number of consecutive times it occurs, so   *)
(* that tables around the 1000-row and 10000-row thresholds are ordinary   *)
(* values.  pandas is modelled with its 1.x/2.x semantics (text columns    *)
(* have dtype object; astype(str) turns a missing value into 'nan').       *)
(***************************************************************************)
EXTENDS Integers, Sequences, FiniteSets, TLC

(***************************************************************************)
(* Text                                                                    *)
(***************************************************************************)
Q == "\""

RECURSIVE EscapeQuotes(_)
\* .replace({r'\"': '\"\"'}, regex=True): every quote character is doubled.
EscapeQuotes(s) ==
    IF s = <<>> THEN <<>>
    ELSE (IF Head(s) = Q THEN <<Q, Q>> ELSE <<Head(s)>>) \o EscapeQuotes(Tail(s))

\* str.lower() on the characters that occur in the model's names.
LowerChar(c) ==
    CASE c = "A" -> "a"
      [] c = "D" -> "d"
      [] c = "E" -> "e"
      [] c = "N" -> "n"
      [] c = "T" -> "t"
      [] c = "C" -> "c"
      [] c = "S" -> "s"
      [] c = "V" -> "v"
      [] c = "X" -> "x"
      [] c = "L" -> "l"
      [] OTHER -> c

Lower(s) == [i \in 1..Len(s) |-> LowerChar(s[i])]

\* str.endswith
EndsWith(s, suf) ==
    /\ Len(s) >= Len(suf)
    /\ SubSeq(s, Len(s) - Len(suf) + 1, Len(s)) = suf

\* the `in` operator on strings
Contains(s, sub) ==
    \E i \in 1..(Len(s) - Len(sub) + 1) : SubSeq(s, i, i + Len(sub) - 1) = sub

Digits == <<"0", "1", "2", "3", "4", "5", "6", "7", "8", "9">>

IsDigit(c) == \E i \in 1..10 : Digits[i] = c

DigitVal(c) == (CHOOSE i \in 1..10 : Digits[i] = c) - 1

IsDigits(s) == Len(s) > 0 /\ \A i \in 1..Len(s) : IsDigit(s[i])

RECURSIVE ParseNat(_)
ParseNat(s) ==
    IF s = <<>> THEN 0
    ELSE 10 * ParseNat(SubSeq(s, 1, Len(s) - 1)) + DigitVal(s[Len(s)])

RECURSIVE FormatNat(_)
FormatNat(n) ==
    IF n < 10 THEN <<Digits[n + 1]>>
    ELSE FormatNat(n \div 10) \o <<Digits[(n % 10) + 1]>>

RECURSIVE ZeroPad(_, _)
ZeroPad(s, w) == IF Len(s) >= w THEN s ELSE ZeroPad(<<"0">> \o s, w)

(***************************************************************************)
(* Cells of an in-memory table (a pandas DataFrame)                        *)
(***************************************************************************)
Null   == [k |-> "null", n |-> 0, s |-> <<>>]       \* NaN / NaT
Num(n) == [k |-> "num",  n |-> n, s |-> <<>>]
Str(s) == [k |-> "str",  n |-> 0, s |-> s]
\* a Timestamp: n is the calendar day yyyymmdd, s the nine digits of the
\* nanoseconds past midnight (empty at midnight)
Dt(d, ns) == [k |-> "dt", n |-> d, s |-> ns]


None == {}

Some(v) == {v}

The(o) == CHOOSE v \in o : TRUE

(***************************************************************************)
(* Numerals and missing-value markers                                      *)
(***************************************************************************)
\* pandas' default missing-value markers (STR_NA_VALUES), which read_csv and
\* read_excel apply because keep_default_na is left at its default
DefaultNaValues ==
    { <<>>,
      <<"#", "N", "/", "A">>,
      <<"#", "N", "/", "A", " ", "N", "/", "A">>,
      <<"#", "N", "A">>,
      <<"-", "1", ".", "#", "I", "N", "D">>,
      <<"-", "1", ".", "#", "Q", "N", "A", "N">>,
      <<"-", "N", "a", "N">>,
      <<"-", "n", "a", "n">>,
      <<"1", ".", "#", "I", "N", "D">>,
      <<"1", ".", "#", "Q", "N", "A", "N">>,
      <<"<", "N", "A", ">">>,
      <<"N", "/", "A">>,
      <<"N", "A">>,
      <<"N", "U", "L", "L">>,
      <<"N", "a", "N">>,
      <<"N", "o", "n", "e">>,
      <<"n", "/", "a">>,
      <<"n", "a", "n">>,
      <<"n", "u", "l", "l">> }

\* na_values=['NA', 'N/A', 'missing'] of the three read calls
ExtraNaValues == { <<"N", "A">>, <<"N", "/", "A">>, <<"m", "i", "s", "s", "i", "n", "g">> }

NaValues == DefaultNaValues \cup ExtraNaValues

NanText == <<"n", "a", "n">>

\* The numerals of the model: an integer numeral, or one with the ".0" that
\* a float64 column is written with.
IsNumeral(s) ==
    \/ IsDigits(s)
    \/ /\ Len(s) > 2
       /\ SubSeq(s, Len(s) - 1, Len(s)) = <<".", "0">>
       /\ IsDigits(SubSeq(s, 1, Len(s) - 2))

NumeralValue(s) ==
    IF IsDigits(s) THEN ParseNat(s) ELSE ParseNat(SubSeq(s, 1, Len(s) - 2))

(***************************************************************************)
(* CSV fields                                                              *)
(***************************************************************************)
\* csv.QUOTE_ALL with the default doublequote=True: the field between quote
\* characters, its own quote characters doubled
QuoteField(s) == <<Q>> \o EscapeQuotes(s) \o <<Q>>

RECURSIVE CollapseQuotes(_)
CollapseQuotes(s) ==
    IF s = <<>> THEN <<>>
    ELSE IF Len(s) >= 2 /\ s[1] = Q /\ s[2] = Q
         THEN <<Q>> \o CollapseQuotes(SubSeq(s, 3, Len(s)))
         ELSE <<Head(s)>> \o CollapseQuotes(Tail(s))

\* The reader's view of one field of a CSV line: a field written between
\* quote characters loses them and has its doubled quotes collapsed.
Unquote(tok) ==
    IF Len(tok) >= 2 /\ tok[1] = Q /\ tok[Len(tok)] = Q
    THEN CollapseQuotes(SubSeq(tok, 2, Len(tok) - 1))
    ELSE tok

(***************************************************************************)
(* Tables: columns, dtypes and run-length encoded rows                     *)
(***************************************************************************)
RECURSIVE SumRows(_)
SumRows(blocks) ==
    IF blocks = <<>> THEN 0 ELSE Head(blocks).n + SumRows(Tail(blocks))

\* len(df)
NumRows(df) == SumRows(df.blocks)

\* len(df.columns)
NumCols(df) == Len(df.columns)

RECURSIVE TakeRows(_, _)
\* the first k rows (nrows=k)
TakeRows(blocks, k) ==
    IF blocks = <<>> \/ k <= 0 THEN <<>>
    ELSE IF Head(blocks).n >= k
         THEN <<[Head(blocks) EXCEPT !.n = k]>>
         ELSE <<Head(blocks)>> \o TakeRows(Tail(blocks), k - Head(blocks).n)

\* the cells of column j, one per block
ColumnCells(blocks, j) == [b \in 1..Len(blocks) |-> blocks[b].cells[j]]

\* df[col] = cells, a column of a new dtype given block by block
SetColumn(df, j, dtype, cells) ==
    [df EXCEPT !.dtypes[j] = dtype,
               !.blocks = [b \in 1..Len(df.blocks) |->
                              [df.blocks[b] EXCEPT !.cells[j] = cells[b]]]]

\* the row at position i (1-based)
RECURSIVE RowAt(_, _)
RowAt(blocks, i) ==
    IF i <= Head(blocks).n THEN Head(blocks).cells
    ELSE RowAt(Tail(blocks), i - Head(blocks).n)

(***************************************************************************)
(* Readers.  A CSV file is the fields of its lines, each a text cell that  *)
(* holds the field as it stands in the file (a quoted field with its quote *)
(* characters); a workbook is its typed cells.                             *)
(***************************************************************************)
\* pd.read_csv(file, encoding='utf-8', na_values=[...], nrows=nrows);
\* nrows < 0 stands for no nrows argument.  A field that is a missing-value
\* marker is null; a column is numeric when every other field of it is a
\* numeral (an empty table has object columns), and text otherwise.
ReadCsv(content, nrows) ==
    LET blocks == IF nrows < 0 THEN content.blocks
                  ELSE TakeRows(content.blocks, nrows)
        ncols == Len(content.header)
        field(b, j) == Unquote(blocks[b].cells[j].s)
        numeric(j) ==
            /\ blocks # <<>>
            /\ \A b \in 1..Len(blocks) :
                  field(b, j) \in NaValues \/ IsNumeral(field(b, j))
        cell(b, j) ==
            IF field(b, j) \in NaValues THEN Null
            ELSE IF numeric(j) THEN Num(NumeralValue(field(b, j)))
            ELSE Str(field(b, j))
    IN  [columns |-> [j \in 1..ncols |-> Unquote(content.header[j])],
         dtypes  |-> [j \in 1..ncols |-> IF numeric(j) THEN "num" ELSE "object"],
         blocks  |-> [b \in 1..Len(blocks) |->
                         [cells |-> [j \in 1..ncols |-> cell(b, j)],
                          n |-> blocks[b].n]]]

\* pd.read_excel(file, na_values=[...]): the whole sheet.  A text cell that
\* is a missing-value marker is null; a column whose cells are all numbers,
\* numerals or null is numeric; any other column is an object column that
\* keeps each cell as the workbook typed it.
ReadExcel(content) ==
    LET blocks == content.blocks
        ncols == Len(content.header)
        raw(b, j) == blocks[b].cells[j]
        isna(c) == c.k = "null" \/ (c.k = "str" /\ c.s \in NaValues)
        numeric(j) ==
            /\ blocks # <<>>
            /\ \A b \in 1..Len(blocks) :
                  \/ isna(raw(b, j))
                  \/ raw(b, j).k = "num"
                  \/ raw(b, j).k = "str" /\ IsNumeral(raw(b, j).s)
        cell(b, j) ==
            IF isna(raw(b, j)) THEN Null
            ELSE IF numeric(j) /\ raw(b, j).k = "str"
                 THEN Num(NumeralValue(raw(b, j).s))
            ELSE raw(b, j)
    IN  [columns |-> content.header,
         dtypes  |-> [j \in 1..ncols |-> IF numeric(j) THEN "num" ELSE "object"],
         blocks  |-> [b \in 1..Len(blocks) |->
                         [cells |-> [j \in 1..ncols |-> cell(b, j)],
                          n |-> blocks[b].n]]]

(***************************************************************************)
(* Normalisation (only when the upload is not large)                       *)
(***************************************************************************)
\* str(value) of a cell of an object column
PyStr(c) ==
    CASE c.k = "null" -> NanText
      [] c.k = "num"  -> FormatNat(c.n)
      [] OTHER        -> c.s

\* df[col].astype(str).replace({r'\"': '\"\"'}, regex=True)
EscapeCell(c) == Str(EscapeQuotes(PyStr(c)))

\* for col in df.select_dtypes(include=['object']): df[col] = ...
RECURSIVE EscapeObjectColumns(_, _)
EscapeObjectColumns(df, j) ==
    IF j > NumCols(df) THEN df
    ELSE EscapeObjectColumns(
             IF df.dtypes[j] = "object"
             THEN SetColumn(df, j, "object",
                            [b \in 1..Len(df.blocks) |-> EscapeCell(df.blocks[b].cells[j])]) ELSE df,
             j + 1)

\* a calendar date written yyyy-mm-dd
IsIsoDate(s) ==
    /\ Len(s) = 10
    /\ s[5] = "-" /\ s[8] = "-"
    /\ IsDigits(SubSeq(s, 1, 4)) /\ IsDigits(SubSeq(s, 6, 7))
    /\ IsDigits(SubSeq(s, 9, 10))
    /\ ParseNat(SubSeq(s, 6, 7)) \in 1..12
    /\ ParseNat(SubSeq(s, 9, 10)) \in 1..28

\* pd.to_datetime(..., errors='coerce') on one cell: a number counts
\* nanoseconds from 1970-01-01, a yyyy-mm-dd text is that day, and whatever
\* does not parse becomes NaT.
ToDatetimeCell(c) ==
    CASE c.k = "num" ->
            Dt(19700101, IF c.n = 0 THEN <<>> ELSE ZeroPad(FormatNat(c.n), 9))
      [] c.k = "str" /\ IsIsoDate(c.s) ->
            Dt(ParseNat(SubSeq(c.s, 1, 4)) * 10000
                 + ParseNat(SubSeq(c.s, 6, 7)) * 100
                 + ParseNat(SubSeq(c.s, 9, 10)), <<>>)
      [] c.k = "dt" -> c
      [] OTHER -> Null

\* what pd.to_numeric accepts of a text cell: a numeral, or 'nan'
ParsesAsNumber(c) == c.k # "str" \/ IsNumeral(c.s) \/ c.s = NanText

ToNumericCell(c) ==
    IF c.k # "str" THEN c
    ELSE IF c.s = NanText THEN Null
    ELSE Num(NumeralValue(c.s))

\* variant: a coercion that converts the cells that parse and keeps the
\* others, cell by cell
CoerceNumericCellwise(df, j) ==
    LET convert(c) == IF ParsesAsNumber(c) THEN ToNumericCell(c) ELSE c
    IN  SetColumn(df, j, "object", [b \in 1..Len(df.blocks) |-> convert(df.blocks[b].cells[j])])

\* try: df[col] = pd.to_numeric(df[col])
\* except (ValueError, TypeError): pass
\* to_numeric raises on the first cell that does not parse, before anything
\* is assigned, so the column is converted whole or not at all.
CoerceNumeric(df, j) ==
    IF \A b \in 1..Len(df.blocks) : ParsesAsNumber(df.blocks[b].cells[j])
    THEN SetColumn(df, j, "num", [b \in 1..Len(df.blocks) |-> ToNumericCell(df.blocks[b].cells[j])])
    ELSE df

\* 'date' in col.lower()
IsDateName(name) == Contains(Lower(name), <<"d", "a", "t", "e">>)

\* for col in df.columns: the date rule, else the numeric rule
RECURSIVE ParseDatesAndNumbers(_, _)
ParseDatesAndNumbers(df, j) ==
    IF j > NumCols(df) THEN df
    ELSE ParseDatesAndNumbers(
             IF IsDateName(df.columns[j])
             THEN SetColumn(df, j, "datetime",
                            [b \in 1..Len(df.blocks) |-> ToDatetimeCell(df.blocks[b].cells[j])])
             ELSE IF df.dtypes[j] = "object" THEN CoerceNumeric(df, j)
             ELSE df,
             j + 1)

\* the body of `if not is_large:`
Normalize(df) == ParseDatesAndNumbers(EscapeObjectColumns(df, 1), 1)

(***************************************************************************)
(* Materialisation: df.to_csv(temp_path, index=False, quoting=QUOTE_ALL)   *)
(***************************************************************************)
\* yyyymmdd as yyyy-mm-dd
FormatDay(d) ==
    ZeroPad(FormatNat(d \div 10000), 4) \o <<"-">>
      \o ZeroPad(FormatNat((d \div 100) % 100), 2) \o <<"-">>
      \o ZeroPad(FormatNat(d % 100), 2)

\* The text to_csv writes for one cell of column j.  A missing value is the
\* empty text (na_rep).  A numeric column that holds a missing value is
\* float64 and writes 1 as 1.0.  A datetime column writes the day alone when
\* every value of it is at midnight, and the full time otherwise.
CellText(df, j, c) ==
    LET cells == ColumnCells(df.blocks, j)
        hasNull == \E b \in 1..Len(cells) : cells[b].k = "null"
        hasTime == \E b \in 1..Len(cells) : cells[b].k = "dt" /\ cells[b].s # <<>>
    IN  CASE c.k = "null" -> <<>>
          [] c.k = "str"  -> c.s
          [] c.k = "num"  ->
                IF df.dtypes[j] = "num" /\ hasNull
                THEN FormatNat(c.n) \o <<".", "0">>
                ELSE FormatNat(c.n)
          [] OTHER ->
                IF hasTime
                THEN FormatDay(c.n)
                       \o <<" ", "0", "0", ":", "0", "0", ":", "0", "0", ".">>
                       \o (IF c.s = <<>> THEN ZeroPad(<<>>, 9) ELSE c.s)
                ELSE FormatDay(c.n)

\* The file written: the header line and the data lines, every field quoted.
ToCsv(df) ==
    [kind   |-> "csv",
     header |-> [j \in 1..NumCols(df) |-> QuoteField(df.columns[j])],
     blocks |-> [b \in 1..Len(df.blocks) |->
                    [cells |-> [j \in 1..NumCols(df) |->
                                   Str(QuoteField(CellText(df, j, df.blocks[b].cells[j])))],
                     n |-> df.blocks[b].n]]]

(***************************************************************************)
(* preprocess_and_save                                                     *)
(***************************************************************************)
LargeFileMB == 50

SampleRows == 1000

ExcelLargeRows == 10000

BytesPerMB == 1024 * 1024

ExtCsv == <<".", "c", "s", "v">>

ExtXlsx == <<".", "x", "l", "s", "x">>

\* file.seek(0, 2); file_size_mb = file.tell() / (1024 * 1024), kept as the
\* fraction bytes / BytesPerMB
FileSizeMb(file) == <<file.size, BytesPerMB>>

\* is_large = file_size_mb > 50 (the division by 2^20 is exact in float64)
IsLargeBySize(file) == FileSizeMb(file)[1] > LargeFileMB * FileSizeMb(file)[2]

\* pd.read_csv raises on bytes that are not CSV text (a workbook, a damaged
\* file) and on a file with no columns
CsvReadable(content) == content.kind = "csv" /\ Len(content.header) > 0

\* pd.read_excel raises on bytes that are not a workbook
ExcelReadable(content) == content.kind = "xlsx"

\* variant: the CSV is read whole whatever its size
LoadCsvWhole(file, is_large) == ReadCsv(file.content, -1)

\* the .csv branch: the first SampleRows rows when large, the whole file otherwise
LoadCsv(file, is_large) ==
    IF is_large THEN ReadCsv(file.content, SampleRows)
    ELSE ReadCsv(file.content, -1)

\* variant: the size tier of a workbook is left to the byte-length test
ExcelIsLargeBySizeOnly(df, is_large) == is_large

\* if len(df) > 10000: is_large = True
ExcelIsLarge(df, is_large) == is_large \/ NumRows(df) > ExcelLargeRows

\* variant: the profile's two counts exchanged
DatasetInfoSwapped(file, df, is_large) ==
    [row_count    |-> NumCols(df),
     col_count    |-> NumRows(df),
     file_size_mb |-> FileSizeMb(file),
     is_large     |-> is_large]

\* dataset_info
DatasetInfo(file, df, is_large) ==
    [row_count    |-> NumRows(df),
     col_count    |-> NumCols(df),
     file_size_mb |-> FileSizeMb(file),
     is_large     |-> is_large]

\* return None, None, None, None
NoResult == [temp_path |-> None, columns |-> None, df |-> None, dataset_info |-> None]

\* variant: a failure that shows no message
FailedSilently(msgs) == [ret |-> NoResult, out |-> <<>>]

Failed(msgs) == [ret |-> NoResult, out |-> msgs]

\* from `if not is_large:` to the return of the four results
Finish(file, df0, is_large, msgs) ==
    LET df == IF ~is_large THEN Normalize(df0) ELSE df0
    IN  [ret |-> [temp_path    |-> Some(ToCsv(df)),
                  columns      |-> Some(df.columns),
                  df           |-> Some(df),
                  dataset_info |-> Some(DatasetInfo(file, df, is_large))],
         out |-> msgs]

\* The function: its four results and the messages it shows.  An exception
\* raised by a read is caught by `except Exception`.
PreprocessAndSave(file) ==
    LET is_large == IsLargeBySize(file)
        m0 == IF is_large THEN <<"warning:large-dataset">> ELSE <<>>
    IN  IF EndsWith(file.name, ExtCsv)
        THEN IF ~CsvReadable(file.content)
             THEN Failed(m0 \o <<"error:processing-file">>)
             ELSE Finish(file, LoadCsv(file, is_large), is_large,
                         m0 \o (IF is_large THEN <<"info:sample-loaded">> ELSE <<>>))
        ELSE IF EndsWith(file.name, ExtXlsx)
        THEN IF ~ExcelReadable(file.content)
             THEN Failed(m0 \o <<"error:processing-file">>)
             ELSE LET df0 == ReadExcel(file.content)
                  IN  Finish(file, df0, ExcelIsLarge(df0, is_large),
                             m0 \o (IF NumRows(df0) > ExcelLargeRows
                                    THEN <<"warning:large-excel">> ELSE <<>>))
        ELSE Failed(m0 \o <<"error:unsupported-format">>)

(***************************************************************************)
(* perform_full_analysis                                                   *)
(***************************************************************************)
DistributionPlots == 6

CategoricalShown == 4

RECURSIVE NullsInBlocks(_, _)
\* df.isnull().sum().sum(): the null cells of every block, times its rows
NullsInBlocks(blocks, ncols) ==
    IF blocks = <<>> THEN 0
    ELSE Cardinality({j \in 1..ncols : Head(blocks).cells[j].k = "null"}) * Head(blocks).n
           + NullsInBlocks(Tail(blocks), ncols)

NullCount(df) == NullsInBlocks(df.blocks, NumCols(df))

\* df.select_dtypes(include=[np.number]).columns.tolist(), as positions
NumericCols(df) == SelectSeq([j \in 1..NumCols(df) |-> j], LAMBDA j : df.dtypes[j] = "num")

\* df.select_dtypes(include=['object']).columns.tolist(), as positions
CategoricalCols(df) == SelectSeq([j \in 1..NumCols(df) |-> j], LAMBDA j : df.dtypes[j] = "object")

Min(a, b) == IF a < b THEN a ELSE b

\* variant: the section is shown for a table without nulls too
MissingShownAlways(df) == NullCount(df) >= 0

\* if df.isnull().sum().sum() > 0:
MissingShown(df) == NullCount(df) > 0

\* variant: the heatmap is drawn for a single numeric column
HeatmapShownAtOne(nnum) == nnum >= 1

\* if len(numeric_cols) > 1:
HeatmapShown(nnum) == nnum > 1

Repeat(x, k) == [i \in 1..k |-> x]

\* The body of the try block as its steps in program order.  A step is
\* skipped when its `if` is false; `pre` is what it displays before the
\* computation that can raise, `post` what it displays after it.
ReportSteps(df) ==
    LET nnum == Len(NumericCols(df))
        ncat == Len(CategoricalCols(df))
    IN  << [name |-> "overview", on |-> TRUE,
            pre  |-> <<"h:overview", "metric:rows", "metric:columns", "metric:size">>,
            post |-> <<"metric:memory">>],
           [name |-> "columns", on |-> TRUE,
            pre  |-> <<"h:columns">>, post |-> <<"table:columns">>],
           [name |-> "missing-test", on |-> TRUE, pre |-> <<>>, post |-> <<>>],
           [name |-> "missing", on |-> MissingShown(df),
            pre  |-> <<"h:missing">>, post |-> <<"chart:missing">>],
           [name |-> "numeric-test", on |-> TRUE, pre |-> <<>>, post |-> <<>>],
           [name |-> "numeric", on |-> nnum > 0,
            pre  |-> <<"h:numeric">>, post |-> <<"table:statistics">>],
           [name |-> "distributions", on |-> nnum > 0,
            pre  |-> <<"h:distributions">>,
            post |-> Repeat("chart:histogram", Min(nnum, DistributionPlots))],
           [name |-> "heatmap", on |-> nnum > 0 /\ HeatmapShown(nnum),
            pre  |-> <<"h:heatmap">>, post |-> <<"chart:heatmap">>],
           [name |-> "categorical-test", on |-> TRUE, pre |-> <<>>, post |-> <<>>],
           [name |-> "categorical", on |-> ncat > 0,
            pre  |-> <<"h:categorical">>,
            post |-> Repeat("top10:table+chart", Min(ncat, CategoricalShown))],
           [name |-> "quality", on |-> TRUE,
            pre  |-> <<"h:quality">>,
            post |-> <<"table:quality", "success:analysis-complete">>] >>

StepNames ==
    {"overview", "columns", "missing-test", "missing", "numeric-test", "numeric",
     "distributions", "heatmap", "categorical-test", "categorical", "quality"}

\* except Exception as e: st.error(message); st.error(traceback)
AnalysisError == <<"error:analysis", "error:traceback">>

RECURSIVE RunSteps(_, _, _)
\* variant: a step that raises is reported and the steps after it still run
RunStepsOn(df, i, raises) ==
    IF i > Len(ReportSteps(df)) THEN <<>>
    ELSE LET st == ReportSteps(df)[i]
         IN  IF ~st.on THEN RunSteps(df, i + 1, raises)
             ELSE IF st.name = raises
                  THEN st.pre \o AnalysisError \o RunSteps(df, i + 1, raises)
             ELSE st.pre \o st.post \o RunSteps(df, i + 1, raises)

\* Run the steps from the i-th on, in order; the step named `raises` (if it
\* is not skipped) raises during its computation, which ends the try block.
RunSteps(df, i, raises) ==
    IF i > Len(ReportSteps(df)) THEN <<>>
    ELSE LET st == ReportSteps(df)[i]
         IN  IF ~st.on THEN RunSteps(df, i + 1, raises)
             ELSE IF st.name = raises THEN st.pre \o AnalysisError
             ELSE st.pre \o st.post \o RunSteps(df, i + 1, raises)

\* What perform_full_analysis displays; it returns normally in every case.
PerformFullAnalysis(df, dataset_info, raises) == RunSteps(df, 1, raises)

(***************************************************************************)
(* The script body, which Streamlit runs from the top on every interaction *)
(***************************************************************************)
\* str(uuid.uuid4()): a value never returned before; the k-th identifier is k
Uuid4(count) == count + 1

\* variant: every run of the script mints an identifier
EnsureSessionIdAlwaysNew(sid, count) == [sid |-> Some(Uuid4(count)), count |-> count + 1]

\* if "session_id" not in st.session_state:
\*     st.session_state.session_id = str(uuid.uuid4())
EnsureSessionId(sid, count) ==
    IF sid = None THEN [sid |-> Some(Uuid4(count)), count |-> count + 1]
    ELSE [sid |-> sid, count |-> count]

\* if temp_path and columns and df is not None and dataset_info is not None
ResultOk(r) ==
    /\ r.temp_path # None
    /\ r.columns # None /\ The(r.columns) # <<>>
    /\ r.df # None
    /\ r.dataset_info # None

\* user_query.strip() == ""
IsBlank(q) == \A i \in 1..Len(q) : q[i] = " "

\* duckdb_tools.load_local_csv_to_table(path=temp_path, table="uploaded_data")
LoadTable(temp_path) == <<"uploaded_data">>

\* The form and what a submit does: a blank query is refused; otherwise
\* agent.run is called, and an exception it raises is shown as two errors.
QueryForm(agent, submit, query, agent_raises) ==
    IF ~submit THEN [screen |-> <<"form:query", "info:terminal">>, runs |-> <<>>]
    ELSE IF IsBlank(query)
    THEN [screen |-> <<"form:query", "info:terminal", "warning:enter-query">>,
          runs |-> <<>>]
    ELSE [screen |-> <<"form:query", "info:terminal">>
                       \o (IF agent_raises
                           THEN <<"error:agent", "error:rephrase">>
                           ELSE <<"markdown:response">>),
          runs |-> <<[session_id |-> agent.session_id, query |-> query]>>]

\* the widgets above the upload's part of the page
PageTop == <<"title", "caption:session-id", "button:new-conversation", "uploader">>

\* a run that shows nothing below the uploader
Idle(shown, r) ==
    [screen |-> PageTop \o shown, result |-> r, registered |-> <<>>,
     agent |-> None, agent_runs |-> <<>>]

\* the body of `if temp_path and columns and df is not None and ...` for the
\* result r of preprocess_and_save and the messages it showed
Page(sid, r, msgs, df, info, form, analyze, raises) ==
    [screen |-> PageTop \o msgs
                  \o <<"metric:rows", "metric:columns", "metric:size",
                       IF info.is_large THEN "preview:first-100" ELSE "preview:full",
                       "expander:columns", "h:analysis-mode", "tabs", "button:analyze">>
                  \o (IF analyze THEN PerformFullAnalysis(df, info, raises) ELSE <<>>)
                  \o form.screen,
     result |-> r,
     registered |-> (IF analyze THEN LoadTable(The(r.temp_path)) ELSE <<>>)
                       \o LoadTable(The(r.temp_path)),
     agent |-> Some([session_id |-> The(sid), dataset_info |-> info]),
     agent_runs |-> form.runs]

\* the body of `if uploaded_file is not None:` given what
\* preprocess_and_save returned and showed
Uploaded(sid, p, analyze, raises, submit, query, agent_raises) ==
    IF ~ResultOk(p.ret) THEN Idle(p.out, p.ret)
    ELSE Page(sid, p.ret, p.out, The(p.ret.df), The(p.ret.dataset_info),
              QueryForm([session_id |-> The(sid),
                         dataset_info |-> The(p.ret.dataset_info)],
                        submit, query, agent_raises),
              analyze, raises)

\* One run of the script from `st.title` to its end, given the session
\* identifier, the uploader's file and the buttons pressed in this run.
Script(sid, upfile, analyze, raises, submit, query, agent_raises) ==
    IF upfile = None THEN Idle(<<>>, NoResult)
    ELSE Uploaded(sid, PreprocessAndSave(The(upfile)), analyze, raises, submit,
                  query, agent_raises)

(***************************************************************************)
(* The uploads of the model                                                *)
(***************************************************************************)
MaxBlocks == 2

MaxIds == 3

NameX == <<"x">>

NameN == <<"n">>

NameDate == <<"D", "a", "t", "e">>

Headers == { <<NameX>>, <<NameDate>>, <<NameX, NameN>>, <<NameN, NameX>>,
             <<NameX, NameDate>> }

IsoDay == <<"2", "0", "2", "0", "-", "0", "1", "-", "0", "2">>

\* fields of an uploaded CSV line: 1, a, the empty field and "a""b"
CsvFields == { Str(<<"1">>), Str(<<"a">>), Str(<<>>), Str(<<Q, "a", Q, Q, "b", Q>>) }

\* cells of a workbook: the number 1, the texts a and 2020-01-02, and an
\* empty cell
XlsxCells == { Num(1), Str(<<"a">>), Null, Str(IsoDay) }

SeqsUpTo(S, k) == UNION { [1..m -> S] : m \in 0..k }

\* tables of up to k rows over the given headers and cells
Contents(kind, headers, cells, k) ==
    UNION { { [kind |-> kind, header |-> h, blocks |-> bs] :
                bs \in SeqsUpTo({ [cells |-> r, n |-> 1] : r \in [1..Len(h) -> cells] }, k) }
            : h \in headers }

\* row counts around the two row thresholds
RowCounts ==
    { SampleRows - 1, SampleRows, SampleRows + 1, ExcelLargeRows, ExcelLargeRows + 1 }

\* long tables: one row repeated, optionally followed by a row with a
\* missing value
LongContents(kind, counts, first, last) ==
    { [kind |-> kind, header |-> <<NameX, NameN>>,
       blocks |-> <<[cells |-> first, n |-> c]>> \o tail] :
        c \in counts, tail \in { <<>>, <<[cells |-> last, n |-> 1]>> } }

CsvLong(counts) ==
    LongContents("csv", counts, <<Str(<<"a">>), Str(<<"1">>)>>, <<Str(<<>>), Str(<<"1">>)>>)

XlsxLong(counts) ==
    LongContents("xlsx", counts, <<Str(<<"a">>), Num(1)>>, <<Null, Num(1)>>)

\* byte lengths around the 50 MB threshold
SizeUnder == LargeFileMB * BytesPerMB - 1

SizeAt == LargeFileMB * BytesPerMB

SizeOver == LargeFileMB * BytesPerMB + 1

Sizes == { SizeUnder, SizeAt, SizeOver }

FileCsv == <<"a">> \o ExtCsv

FileXlsx == <<"a">> \o ExtXlsx

FileJson == <<"a", ".", "j", "s", "o", "n">>

FileUpperCsv == <<"A", ".", "C", "S", "V">>

Damaged == [kind |-> "bad", header |-> <<>>, blocks |-> <<>>]

CsvNoColumns == [kind |-> "csv", header |-> <<>>, blocks |-> <<>>]

EmptyWorkbook == [kind |-> "xlsx", header |-> <<>>, blocks |-> <<>>]

SmallCsv ==
    [kind |-> "csv", header |-> <<NameX>>, blocks |-> <<[cells |-> <<Str(<<"a">>)>>, n |-> 1]>>]

SmallXlsx ==
    [kind |-> "xlsx", header |-> <<NameX>>, blocks |-> <<[cells |-> <<Str(<<"a">>)>>, n |-> 1]>>]

OddContents == { Damaged, CsvNoColumns, EmptyWorkbook, SmallCsv, SmallXlsx }

File(name, size, content) == [name |-> name, size |-> size, content |-> content]

\* The uploads preprocess_and_save is checked on: small tables of up to
\* MaxBlocks rows under their own extension, long tables at every size, and
\* every name with every odd content at every size.
Files ==
    { File(FileCsv, SizeUnder, c) : c \in Contents("csv", Headers, CsvFields, MaxBlocks) }
    \cup
    { File(FileXlsx, SizeUnder, c) : c \in Contents("xlsx", Headers, XlsxCells, MaxBlocks) }
    \cup
    { File(FileCsv, sz, c) : sz \in Sizes, c \in CsvLong(RowCounts) }
    \cup
    { File(FileXlsx, sz, c) : sz \in Sizes, c \in XlsxLong(RowCounts) }
    \cup
    { File(nm, sz, c) : nm \in {FileCsv, FileXlsx, FileJson, FileUpperCsv},
                        sz \in Sizes, c \in OddContents }

\* The uploads of the application's runs: the CSV tables of at most one row
\* over 1, a and the empty field, long tables on both sides of each
\* threshold, and the uploads that give no result.
AppFiles ==
    { File(FileCsv, SizeUnder, c) :
        c \in Contents("csv", { <<NameX>>, <<NameX, NameN>>, <<NameX, NameDate>> },
                       { Str(<<"1">>), Str(<<"a">>), Str(<<>>) }, 1) }
    \cup
    { File(FileCsv, sz, c) : sz \in {SizeUnder, SizeOver}, c \in CsvLong({SampleRows + 1}) }
    \cup
    { File(FileXlsx, SizeUnder, c) : c \in XlsxLong({ExcelLargeRows})
                                           \cup {SmallXlsx, EmptyWorkbook} }
    \cup
    { File(FileJson, SizeUnder, SmallCsv), File(FileUpperCsv, SizeOver, SmallCsv),
      File(FileCsv, SizeUnder, Damaged), File(FileCsv, SizeUnder, SmallXlsx),
      File(FileCsv, SizeOver, CsvNoColumns), File(FileXlsx, SizeUnder, Damaged) }

Queries == { <<>>, <<" ">>, <<"q">> }

(***************************************************************************)
(* State                                                                   *)
(***************************************************************************)
VARIABLES
    session_id,     \* st.session_state.session_id: None or Some(identifier)
    uuid_count,     \* how many identifiers uuid4 has returned
    uploaded_file,  \* the uploader's file: None or Some(file)
    result,         \* what preprocess_and_save returned in the last run
    screen,         \* what the last run displayed, in order
    registered,     \* the tables the last run loaded into DuckDB
    agent,          \* the Agent the last run constructed: None or Some(agent)
    agent_runs,     \* the agent.run calls of the last run
    event           \* the interaction that caused the last run

vars == <<session_id, uuid_count, uploaded_file, result, screen, registered,
          agent, agent_runs, event>>

Init ==
    /\ session_id = None
    /\ uuid_count = 0
    /\ uploaded_file = None
    /\ result = NoResult
    /\ screen = <<>>
    /\ registered = <<>>
    /\ agent = None
    /\ agent_runs = <<>>
    /\ event = "none"

\* the state a run leaves
Leaves(ev, s, upfile, out) ==
    /\ session_id' = s.sid
    /\ uuid_count' = s.count
    /\ uploaded_file' = upfile
    /\ result' = out.result
    /\ screen' = out.screen
    /\ registered' = out.registered
    /\ agent' = out.agent
    /\ agent_runs' = out.agent_runs
    /\ event' = ev

\* One run of the script: the session identifier is ensured, then the body.
RunWith(ev, s, upfile, analyze, raises, submit, query, agent_raises) ==
    Leaves(ev, s, upfile,
           Script(s.sid, upfile, analyze, raises, submit, query, agent_raises))

Run(ev, sid0, count0, upfile, analyze, raises, submit, query, agent_raises) ==
    RunWith(ev, EnsureSessionId(sid0, count0), upfile, analyze, raises, submit,
            query, agent_raises)

\* the browser opens the page: the first run of the session
OpenPage ==
    /\ event = "none"
    /\ Run("open", session_id, uuid_count, None, FALSE, "none", FALSE, <<>>, FALSE)

\* the user puts a file into the uploader
UploadFile ==
    /\ event # "none"
    /\ \E f \in AppFiles :
          Run("upload", session_id, uuid_count, Some(f), FALSE, "none", FALSE, <<>>, FALSE)

\* the user removes the file from the uploader
RemoveFile ==
    /\ event # "none"
    /\ uploaded_file # None
    /\ Run("remove", session_id, uuid_count, None, FALSE, "none", FALSE, <<>>, FALSE)

\* "Start New Conversation": a new identifier, then st.rerun() runs the
\* script again from the top with no button pressed
NewConversation ==
    /\ event # "none"
    /\ uuid_count < MaxIds
    /\ Run("new-conversation", Some(Uuid4(uuid_count)), uuid_count + 1,
           uploaded_file, FALSE, "none", FALSE, <<>>, FALSE)

\* "Analyze Full Dataset", shown only when the last run got a result; the
\* report may raise at any of its steps
AnalyzeFullDataset ==
    /\ ResultOk(result)
    /\ \E raises \in StepNames \cup {"none"} :
          Run("analyze", session_id, uuid_count, uploaded_file, TRUE, raises,
              FALSE, <<>>, FALSE)

\* "Submit Query", shown only when the last run got a result; the agent
\* call may raise
SubmitQuery ==
    /\ ResultOk(result)
    /\ \E q \in Queries, agent_raises \in BOOLEAN :
          Run("submit", session_id, uuid_count, uploaded_file, FALSE, "none",
              TRUE, q, agent_raises)

Next ==
    \/ OpenPage
    \/ UploadFile
    \/ RemoveFile
    \/ NewConversation
    \/ AnalyzeFullDataset
    \/ SubmitQuery

Spec == Init /\ [][Next]_vars

(***************************************************************************)
(* preprocess_and_save on its own, over the wider set of uploads           *)
(***************************************************************************)
IngestInit ==
    /\ session_id = None
    /\ uuid_count = 0
    /\ uploaded_file \in { Some(f) : f \in Files }
    /\ result = NoResult
    /\ screen = <<>>
    /\ registered = <<>>
    /\ agent = None
    /\ agent_runs = <<>>
    /\ event = "none"

\* temp_path, columns, df, dataset_info = preprocess_and_save(uploaded_file)
Ingest ==
    /\ event = "none"
    /\ LET p == PreprocessAndSave(The(uploaded_file))
       IN  /\ result' = p.ret
           /\ screen' = p.out
    /\ event' = "ingest"
    /\ UNCHANGED <<session_id, uuid_count, uploaded_file, registered, agent, agent_runs>>

IngestNext == Ingest

IngestSpec == IngestInit /\ [][IngestNext]_vars

(***************************************************************************)
(* Properties                                                              *)
(***************************************************************************)
Has(seq, x) == \E i \in 1..Len(seq) : seq[i] = x

Ingested == event = "ingest"

FiftyMB == 50 * 1024 * 1024

TheFile == The(uploaded_file)

\* the upload's name ends neither in .csv nor in .xlsx
UnsupportedName(f) == ~EndsWith(f.name, ExtCsv) /\ ~EndsWith(f.name, ExtXlsx)

\* the read of the upload raises
ReadRaises(f) ==
    \/ EndsWith(f.name, ExtCsv) /\ ~CsvReadable(f.content)
    \/ ~EndsWith(f.name, ExtCsv) /\ EndsWith(f.name, ExtXlsx) /\ ~ExcelReadable(f.content)

\* C1: after any run with an upload whose name is unsupported or whose read
\* raises, preprocess_and_save has returned None for all four results and
\* shown an error, and the run (which completed) loaded no table into the
\* query engine, rendered no report, built no agent and ran no query.
C1_FailedUploadGivesNothing ==
    (uploaded_file # None /\ event # "none"
       /\ (UnsupportedName(TheFile) \/ ReadRaises(TheFile)))
    => /\ result.temp_path = None /\ result.columns = None
       /\ result.df = None /\ result.dataset_info = None
       /\ IF UnsupportedName(TheFile)
          THEN Has(screen, "error:unsupported-format")
          ELSE Has(screen, "error:processing-file")
       /\ registered = <<>>
       /\ agent = None
       /\ agent_runs = <<>>
       /\ \A i \in 1..Len(screen) :
             screen[i] \notin {"button:analyze", "h:overview", "h:columns", "h:missing",
                               "h:numeric", "h:distributions", "h:heatmap",
                               "h:categorical", "h:quality", "form:query"}

\* both cases of C1 have been uploaded: here a read that raises
C1_Witness ==
    /\ event = "upload" /\ uploaded_file # None
    /\ ReadRaises(TheFile)
    /\ Has(screen, "error:processing-file")

\* C2: a .csv upload of fewer than 50 MB bytes that parses gets a profile
\* with is_large false, row_count the number of rows of the returned table
\* and col_count its number of columns.
C2_SmallCsvProfile ==
    (Ingested /\ EndsWith(TheFile.name, ExtCsv) /\ CsvReadable(TheFile.content)
       /\ TheFile.size < FiftyMB)
    => /\ result.dataset_info # None /\ result.df # None
       /\ The(result.dataset_info).is_large = FALSE
       /\ The(result.dataset_info).row_count = SumRows(The(result.df).blocks)
       /\ The(result.dataset_info).col_count = Len(The(result.df).columns)

C2_Witness ==
    /\ Ingested /\ EndsWith(TheFile.name, ExtCsv)
    /\ TheFile.size < FiftyMB
    /\ result.dataset_info # None
    /\ The(result.dataset_info).row_count = 2
    /\ The(result.dataset_info).col_count = 1

\* C3: a .csv upload of more than 50 MB bytes that parses gets is_large true
\* and a table of the file's first 1000 rows: never more than 1000 rows, and
\* exactly 1000 whenever the file has at least 1000.
C3_LargeCsvSample ==
    (Ingested /\ EndsWith(TheFile.name, ExtCsv) /\ CsvReadable(TheFile.content)
       /\ TheFile.size > FiftyMB)
    => /\ result.dataset_info # None /\ result.df # None
       /\ The(result.dataset_info).is_large = TRUE
       /\ SumRows(The(result.df).blocks) <= 1000
       /\ SumRows(The(result.df).blocks)
            = Min(SumRows(TheFile.content.blocks), 1000)

C3_Witness ==
    /\ Ingested /\ EndsWith(TheFile.name, ExtCsv)
    /\ TheFile.size > FiftyMB
    /\ SumRows(TheFile.content.blocks) > 10000
    /\ result.df # None
    /\ SumRows(The(result.df).blocks) = 1000

\* C4: a .xlsx upload that parses is held whole, and its profile has
\* is_large true whenever the table has more than 10000 rows, whatever the
\* byte length.
C4_ExcelRowRule ==
    (Ingested /\ EndsWith(TheFile.name, ExtXlsx) /\ ExcelReadable(TheFile.content))
    => /\ result.dataset_info # None /\ result.df # None
       /\ SumRows(The(result.df).blocks) = SumRows(TheFile.content.blocks)
       /\ The(result.dataset_info).row_count = SumRows(TheFile.content.blocks)
       /\ (SumRows(The(result.df).blocks) > 10000
             => The(result.dataset_info).is_large = TRUE)

C4_Witness ==
    /\ Ingested /\ EndsWith(TheFile.name, ExtXlsx)
    /\ ~(TheFile.size > FiftyMB)
    /\ result.dataset_info # None
    /\ The(result.dataset_info).row_count > 10000
    /\ The(result.dataset_info).is_large = TRUE

Analyzed == event = "analyze" /\ result.df # None

IndexOf(seq, x) == CHOOSE i \in 1..Len(seq) : seq[i] = x

\* what perform_full_analysis displayed in the last run: the part of the
\* page between the analyze button and the query form
ReportShown ==
    SubSeq(screen, IndexOf(screen, "button:analyze") + 1, IndexOf(screen, "form:query") - 1)

\* the six sections in their fixed order; the statistics, the distribution
\* plots and the heatmap all belong to the numeric analysis
SectionOf(e) ==
    CASE e = "h:overview"      -> 1
      [] e = "h:columns"       -> 2
      [] e = "h:missing"       -> 3
      [] e = "h:numeric"       -> 4
      [] e = "h:distributions" -> 4
      [] e = "h:heatmap"       -> 4
      [] e = "h:categorical"   -> 5
      [] e = "h:quality"       -> 6
      [] OTHER                 -> 0

HasNullCell(df) ==
    \E b \in 1..Len(df.blocks) : \E j \in 1..Len(df.columns) :
        df.blocks[b].cells[j].k = "null"

NumericColumnCount(df) == Cardinality({ j \in 1..Len(df.columns) : df.dtypes[j] = "num" })

TextColumnCount(df) == Cardinality({ j \in 1..Len(df.columns) : df.dtypes[j] = "object" })

\* the sections a complete report of df has, in order
SectionsDue(df) ==
    SelectSeq(<<1, 2, 3, 4, 5, 6>>,
              LAMBDA r : /\ (r = 3 => HasNullCell(df))
                         /\ (r = 4 => NumericColumnCount(df) > 0)
                         /\ (r = 5 => TextColumnCount(df) > 0))

SectionsShown(rep) == { SectionOf(rep[i]) : i \in 1..Len(rep) } \ {0}

\* C5: after a report run the sections shown are in the fixed order and are
\* a prefix of the sections due for the table; the run shows either the
\* completion message, after every section due, or the error and the
\* trace, after which nothing of the report follows; and the function has
\* returned, since the page goes on to the query form.
C5_ReportIsPrefix ==
    Analyzed =>
      LET rep == ReportShown
          due == SectionsDue(The(result.df))
          failed == Has(rep, "error:analysis")
          done == Has(rep, "success:analysis-complete")
      IN  /\ Has(screen, "form:query") /\ agent # None
          /\ \A i, j \in 1..Len(rep) :
                (i < j /\ SectionOf(rep[i]) > 0 /\ SectionOf(rep[j]) > 0)
                  => /\ SectionOf(rep[i]) <= SectionOf(rep[j])
                     /\ rep[i] # rep[j]
          /\ \E k \in 0..Len(due) : SectionsShown(rep) = { due[i] : i \in 1..k }
          /\ failed # done
          /\ failed => /\ Len(rep) >= 2
                       /\ SubSeq(rep, Len(rep) - 1, Len(rep))
                            = <<"error:analysis", "error:traceback">>
          /\ done => /\ SectionsShown(rep) = { due[i] : i \in 1..Len(due) }
                     /\ rep[Len(rep)] = "success:analysis-complete"

\* a report aborted in its numeric analysis: the earlier sections are shown,
\* the later ones are not
C5_Witness ==
    /\ Analyzed
    /\ Has(screen, "error:traceback")
    /\ Has(screen, "table:columns") /\ Has(screen, "h:numeric")
    /\ ~Has(screen, "h:quality")
    /\ TextColumnCount(The(result.df)) > 0

\* the run went past section s: it completed, or it showed a later section
WentPast(rep, s) ==
    \/ Has(rep, "success:analysis-complete")
    \/ \E i \in 1..Len(rep) : SectionOf(rep[i]) > s

\* C6: in a report run the missing-value chart is shown only if the table
\* has a null cell, and it is shown whenever the table has one, unless an
\* exception ended the run before that section (the abort of C5).
C6_MissingChartIffNulls ==
    Analyzed =>
      LET rep == ReportShown
          nulls == HasNullCell(The(result.df))
      IN  /\ Has(rep, "h:missing") => nulls
          /\ Has(rep, "chart:missing") => nulls
          /\ (nulls /\ WentPast(rep, 3))
                => Has(rep, "h:missing") /\ Has(rep, "chart:missing")
          /\ (nulls /\ ~Has(rep, "h:missing"))
                => /\ Has(rep, "error:analysis")
                   /\ SectionsShown(rep) \subseteq {1, 2}

C6_Witness ==
    /\ Analyzed
    /\ HasNullCell(The(result.df))
    /\ Has(screen, "chart:missing")
    /\ Has(screen, "success:analysis-complete")

\* C7: in a report run the correlation heatmap is shown only if the table
\* has more than one numeric column, and it is shown whenever it has,
\* unless an exception ended the run before the heatmap (the abort of C5).
C7_HeatmapIffTwoNumeric ==
    Analyzed =>
      LET rep == ReportShown
          many == NumericColumnCount(The(result.df)) > 1
      IN  /\ Has(rep, "h:heatmap") => many
          /\ Has(rep, "chart:heatmap") => many
          /\ (many /\ WentPast(rep, 4))
                => Has(rep, "h:heatmap") /\ Has(rep, "chart:heatmap")
          /\ (many /\ ~Has(rep, "h:heatmap"))
                => /\ Has(rep, "error:analysis")
                   /\ SectionsShown(rep) \subseteq {1, 2, 3, 4}

C7_Witness ==
    /\ Analyzed
    /\ NumericColumnCount(The(result.df)) = 2
    /\ Has(screen, "chart:heatmap")
    /\ Has(screen, "success:analysis-complete")

\* the table as written to the materialised file and read back with the
\* reader and the quoting the application reads CSV files with
ReadBack(r) == ReadCsv(The(r.temp_path), -1)

\* C8: for every upload that is ingested and is not large, the materialised
\* file read back has the table's column names in the table's order and the
\* table's rows, cell for cell.
C8_RoundTrip ==
    (Ingested /\ result.df # None /\ ~The(result.dataset_info).is_large)
    => /\ ReadBack(result).columns = The(result.df).columns
       /\ Len(ReadBack(result).blocks) = Len(The(result.df).blocks)
       /\ \A b \in 1..Len(The(result.df).blocks) :
             ReadBack(result).blocks[b] = The(result.df).blocks[b]

\* C9: the identifier exists from the first run on; a run other than "Start
\* New Conversation" leaves it as it is; "Start New Conversation" replaces
\* it by an identifier never used before; and the agent of a run, and every
\* agent.run call of it, carries the identifier the session then has.
C9_SessionIdStable ==
    /\ [](event # "none" => session_id # None)
    /\ [](agent # None => The(agent).session_id = The(session_id))
    /\ [](\A i \in 1..Len(agent_runs) : agent_runs[i].session_id = The(session_id))
    /\ [][ /\ (session_id = None => (event' = "open" /\ session_id' # None))
           /\ ((session_id # None /\ event' # "new-conversation")
                 => session_id' = session_id)
           /\ (event' = "new-conversation"
                 => /\ session_id' # None
                    /\ session_id' # session_id
                    /\ The(session_id') \notin 1..uuid_count) ]_vars

\* a query answered, and one that failed, in the second conversation
C9_Witness ==
    /\ event = "submit"
    /\ session_id = Some(2)
    /\ Len(agent_runs) = 1 /\ agent_runs[1].session_id = 2
    /\ Has(screen, "error:agent")

\* the upload as its reader types it, before any normalisation
AsRead(f) ==
    IF EndsWith(f.name, ExtCsv) THEN ReadCsv(f.content, -1) ELSE ReadExcel(f.content)

NameHasDate(name) == Contains(Lower(name), <<"d", "a", "t", "e">>)

IsNumberText(s) == IsNumeral(s) \/ s = <<"n", "a", "n">>

\* C10: for an upload that is read and is not large, ingestion succeeds, and
\* every column that was read as text and whose name has no 'date' in it
\* (in any letter case) ends in one of two states: a numeric column, every
\* cell the number its text stands for, when every cell's text is a number;
\* or the text column of the quote step, cell for cell, when some cell's
\* text is not.  No such column holds both numbers and texts.
C10_WholeColumnCoercion ==
    (Ingested /\ ~UnsupportedName(TheFile) /\ ~ReadRaises(TheFile))
    => /\ result.df # None /\ result.dataset_info # None
       /\ ~The(result.dataset_info).is_large =>
            LET df == The(result.df)
                read == AsRead(TheFile)
                text(b, j) == EscapeQuotes(PyStr(read.blocks[b].cells[j]))
                rows == 1..Len(df.blocks)
            IN  \A j \in 1..Len(df.columns) :
                  (read.dtypes[j] = "object" /\ ~NameHasDate(df.columns[j]))
                  => \/ /\ \A b \in rows : IsNumberText(text(b, j))
                        /\ df.dtypes[j] = "num"
                        /\ \A b \in rows :
                              df.blocks[b].cells[j] =
                                 IF text(b, j) = <<"n", "a", "n">> THEN Null
                                 ELSE Num(NumeralValue(text(b, j)))
                     \/ /\ \E b \in rows : ~IsNumberText(text(b, j))
                        /\ df.dtypes[j] = "object"
                        /\ \A b \in rows : df.blocks[b].cells[j] = Str(text(b, j))

\* a text column with a numeral in it that stays text, because another of
\* its cells is no number
C10_Witness ==
    /\ Ingested /\ result.df # None
    /\ ~The(result.dataset_info).is_large
    /\ \E j \in 1..Len(The(result.df).columns) :
          /\ ~NameHasDate(The(result.df).columns[j])
          /\ The(result.df).dtypes[j] = "object"
          /\ Len(The(result.df).blocks) = 2
          /\ The(result.df).blocks[1].cells[j] = Str(<<"1">>)
          /\ The(result.df).blocks[2].cells[j] = Str(<<"a">>)

=============================================================================
